---- MODULE Spec2Model ----
(***************************************************************************)
(* Model of db_connection.py: the DatabaseConnection manager (connect,     *)
(* disconnect, get_cursor, execute_schema, test_connection) on top of the   *)
(* MySQL driver.                                                            *)
(*                                                                          *)
(* Every method is one action.  The driver is the environment: each driver  *)
(* call of a method (connect, cursor, execute, commit, rollback, close)     *)
(* succeeds or raises mysql.connector.Error, as chosen by an oracle record  *)
(* drawn with \E; a call on a connection that is no longer live always      *)
(* raises.  The calls a method makes are logged, in order, in `trace`.      *)
(*                                                                          *)
(* Driver assumptions: close() on a connection or a cursor releases it      *)
(* whether or not the call raises.                                          *)
(***************************************************************************)
EXTENDS Integers, Sequences, FiniteSets, TLC

\* Bound on the number of driver connections created in one behaviour.
MaxConns == 3

\* self.connection = None
None == 0

\* config.get('port', 3306) and config.get('charset', 'utf8mb4')
DefaultPort == 3306
DefaultCharset == "utf8mb4"

\* The keys connect() reads with config[...], in evaluation order.
RequiredKeys == <<"host", "user", "password", "database">>

\* The `database` sections the manager is constructed with: every key set,
\* only the required keys, and sections lacking one required key.
FullConfig ==
    [host |-> "h", port |-> 3307, user |-> "u", password |-> "p",
     database |-> "d", charset |-> "latin1"]
MinimalConfig == [host |-> "h", user |-> "u", password |-> "p", database |-> "d"]
NoHostConfig == [user |-> "u", password |-> "p", database |-> "d", port |-> 3307]
NoUserConfig == [host |-> "h", password |-> "p", database |-> "d"]
NoPasswordConfig == [host |-> "h", user |-> "u", database |-> "d"]
NoDatabaseConfig == [host |-> "h", user |-> "u", password |-> "p"]
Configs ==
    {FullConfig, MinimalConfig, NoHostConfig, NoUserConfig, NoPasswordConfig,
     NoDatabaseConfig}

\* self.db_config.config before load_config has returned.
NoConfig == [loaded |-> FALSE]

\* The value of a section that my.json does not have.
NoSection == "absent"

\* Exceptions.  DriverErrors are the instances of mysql.connector.Error, the
\* only class the except clauses of the module catch.
NoExc == "none"
DriverErrors ==
    {"E_connect", "E_cursor", "E_query", "E_commit", "E_rollback",
     "E_cursor_close", "E_close"}
OtherErrors ==
    {"KeyError", "OSError", "X_block", "FileNotFoundError", "ValueError"}

\* Outcomes of a driver call, and of mysql.connector.connect followed by the
\* is_connected() test of line 63 ("dead": connected, but not live any more).
Outcome == {"ok", "fail"}
ConnOutcome == {"ok", "dead", "fail"}

\* The block a caller runs inside `with db.get_cursor()`: it completes, raises
\* a driver error, or raises any other exception.
BlockOutcome == {NoExc, "E_query", "X_block"}

VARIABLES
    file,         \* my.json on disk: whether it exists, its top-level sections
    config,       \* self.db_config.config, loaded once at construction
    connection,   \* self.connection: None or a driver connection
    live,         \* the driver connections for which is_connected() holds
    opened,       \* number of driver connections created so far
    cursors,      \* cursors created and not yet closed
    reconnected,  \* history: connect() was called while already connected
    op,           \* the method that ran last ("idle": the caller moved on)
    arg,          \* its argument (the schema text of execute_schema)
    trace,        \* the calls it made, in order
    block,        \* how the block inside its cursor scope ended ("none": not run)
    first,        \* the first exception raised while it ran, or NoExc
    exc,          \* the exception it raised, or NoExc
    ret           \* the value it returned

vars ==
    <<file, config, connection, live, opened, cursors, reconnected,
      op, arg, trace, block, first, exc, ret>>

\* The manager and the driver as one value, threaded through the methods.
W ==
    [connection |-> connection, live |-> live, opened |-> opened,
     cursors |-> cursors, trace |-> <<>>, block |-> "none", first |-> NoExc]

Ok(w, v) == [w |-> w, exc |-> NoExc, ret |-> v]
Raise(w, e) ==
    [w |-> [w EXCEPT !.first = IF @ = NoExc THEN e ELSE @],
     exc |-> e, ret |-> "None"]
Log(w, ev) == [w EXCEPT !.trace = Append(@, ev)]

\* `self.connection and self.connection.is_connected()`
Connected(w) == w.connection # None /\ w.connection \in w.live

\* A driver call on self.connection raises when the connection is not live.
drv(w, o) == IF w.connection \in w.live THEN o ELSE "fail"

-----------------------------------------------------------------------------
(* connect *)

\* Variant of connect that passes the default port whatever the configuration.
connect_default_port(w, oc) ==
    IF \E i \in 1..Len(RequiredKeys) : RequiredKeys[i] \notin DOMAIN config
    THEN Raise(Log(w, <<"connect", None, "KeyError">>), "KeyError")
    ELSE LET charset == IF "charset" \in DOMAIN config
                        THEN config.charset ELSE DefaultCharset
             id == w.opened + 1
             args == [k \in {"host", "user", "password", "database"} |-> config[k]]
             w1 == Log(w, <<"connect", IF oc = "fail" THEN None ELSE id, oc,
                            DefaultPort, charset, args>>)
         IN  CASE oc = "fail" -> Raise(w1, "E_connect")
               [] oc = "ok" ->
                    Ok([w1 EXCEPT !.connection = id, !.live = @ \cup {id},
                                  !.opened = id], "connection")
               [] oc = "dead" ->
                    Ok([w1 EXCEPT !.connection = id, !.opened = id], "None")

\* Variant of connect that clears the handle when the driver refuses.
connect_reset(w, oc) ==
    IF \E i \in 1..Len(RequiredKeys) : RequiredKeys[i] \notin DOMAIN config
    THEN Raise(Log(w, <<"connect", None, "KeyError">>), "KeyError")
    ELSE LET port == IF "port" \in DOMAIN config THEN config.port ELSE DefaultPort
             charset == IF "charset" \in DOMAIN config
                        THEN config.charset ELSE DefaultCharset
             id == w.opened + 1
             args == [k \in {"host", "user", "password", "database"} |-> config[k]]
             w1 == Log(w, <<"connect", IF oc = "fail" THEN None ELSE id, oc,
                            port, charset, args>>)
         IN  CASE oc = "fail" -> Raise([w1 EXCEPT !.connection = None], "E_connect")
               [] oc = "ok" ->
                    Ok([w1 EXCEPT !.connection = id, !.live = @ \cup {id},
                                  !.opened = id], "connection")
               [] oc = "dead" ->
                    Ok([w1 EXCEPT !.connection = id, !.opened = id], "None")

\* Lines 51-69.  The handle is assigned only when the driver returns a
\* connection; a KeyError of config[...] is not caught by `except Error`.
connect(w, oc) ==
    IF \E i \in 1..Len(RequiredKeys) : RequiredKeys[i] \notin DOMAIN config
    THEN Raise(Log(w, <<"connect", None, "KeyError">>), "KeyError")
    ELSE LET port == IF "port" \in DOMAIN config THEN config.port ELSE DefaultPort
             charset == IF "charset" \in DOMAIN config
                        THEN config.charset ELSE DefaultCharset
             id == w.opened + 1
             args == [k \in {"host", "user", "password", "database"} |-> config[k]]
             w1 == Log(w, <<"connect", IF oc = "fail" THEN None ELSE id, oc,
                            port, charset, args>>)
         IN  CASE oc = "fail" -> Raise(w1, "E_connect")
               [] oc = "ok" ->
                    Ok([w1 EXCEPT !.connection = id, !.live = @ \cup {id},
                                  !.opened = id], "connection")
               [] oc = "dead" ->
                    Ok([w1 EXCEPT !.connection = id, !.opened = id], "None")

-----------------------------------------------------------------------------
(* disconnect *)

\* Variant of disconnect that drops the handle without closing it.
disconnect_forget(w, ocl) ==
    IF Connected(w)
    THEN Ok([w EXCEPT !.connection = None], "None")
    ELSE Ok(w, "None")

\* Variant of disconnect without the is_connected() test.
disconnect_unguarded(w, ocl) ==
    IF w.connection # None
    THEN LET w1 == [Log(w, <<"close", w.connection, ocl>>)
                        EXCEPT !.live = @ \ {w.connection}]
         IN  IF ocl = "ok" THEN Ok(w1, "None") ELSE Raise(w1, "E_close")
    ELSE Ok(w, "None")

\* Lines 71-75.
disconnect(w, ocl) ==
    IF Connected(w)
    THEN LET w1 == [Log(w, <<"close", w.connection, ocl>>)
                        EXCEPT !.live = @ \ {w.connection}]
         IN  IF ocl = "ok" THEN Ok(w1, "None") ELSE Raise(w1, "E_close")
    ELSE Ok(w, "None")

-----------------------------------------------------------------------------
(* get_cursor *)

\* Line 85: self.connection.cursor(dictionary=...), reached when the lazy
\* connect, of outcome r1, raised nothing.  ret is "cursor" when the local
\* `cursor` has been set.
new_cursor(r1, o) ==
    IF r1.exc # NoExc THEN r1
    ELSE LET out == drv(r1.w, o.cursor)
             w2 == Log(r1.w, <<"cursor", r1.w.connection, out>>)
         IN  IF out = "ok"
             THEN Ok([w2 EXCEPT !.cursors = @ + 1], "cursor")
             ELSE Raise(w2, "E_cursor")

\* Variant of the scope entry that connects unconditionally.
acquire_always(w, o) ==
    new_cursor(connect(w, o.conn), o)

\* Lines 82-85: the lazy connect and the creation of the cursor.
acquire(w, o) ==
    new_cursor(IF ~Connected(w) THEN connect(w, o.conn) ELSE Ok(w, "None"), o)

\* Variant of the scope exit that never commits.
commit_step_skip(w, o, v) == Ok(w, v)

\* Variant of the scope exit that ignores a failed commit.
commit_step_swallow(w, o, v) ==
    Ok(Log(w, <<"commit", w.connection, drv(w, o.commit)>>), v)

\* Line 87: self.connection.commit(), reached when the block completed; v is
\* the value the block returns.
commit_step(w, o, v) ==
    LET out == drv(w, o.commit)
        w1 == Log(w, <<"commit", w.connection, out>>)
    IN  IF out = "ok" THEN Ok(w1, v) ELSE Raise(w1, "E_commit")

\* Lines 89-93: `except Error as e`, entered for driver errors only.
on_error(w, e, o) ==
    IF e \in DriverErrors /\ w.connection # None
    THEN LET out == drv(w, o.rollback)
             w1 == Log(w, <<"rollback", w.connection, out>>)
         IN  IF out = "ok" THEN Raise(w1, e) ELSE Raise(w1, "E_rollback")
    ELSE Raise(w, e)

\* Variant that closes the cursor only when nothing was raised.
release_on_success(r, cur, o) ==
    IF cur /\ r.exc = NoExc
    THEN LET w1 == [Log(r.w, <<"cursor_close", r.w.connection, o.cclose>>)
                        EXCEPT !.cursors = @ - 1]
         IN  IF o.cclose = "ok" THEN [r EXCEPT !.w = w1]
             ELSE Raise(w1, "E_cursor_close")
    ELSE r

\* Lines 95-97: `finally: if cursor: cursor.close()`; r is the outcome so far.
release(r, cur, o) ==
    IF cur
    THEN LET w1 == [Log(r.w, <<"cursor_close", r.w.connection, o.cclose>>)
                        EXCEPT !.cursors = @ - 1]
         IN  IF o.cclose = "ok" THEN [r EXCEPT !.w = w1]
             ELSE Raise(w1, "E_cursor_close")
    ELSE r

\* Lines 86-97, after the scope entry of outcome a: the scope as the with
\* statement runs it.  blk is what the block does with the cursor (the calls
\* it makes, the exception it raises, the value it returns).
scope(a, o, blk) ==
    LET cur == a.exc = NoExc
        wb == [a.w EXCEPT !.trace = @ \o blk.events,
                          !.block = IF blk.exc = NoExc THEN "ok" ELSE blk.exc]
        body == IF ~cur THEN a
                ELSE IF blk.exc # NoExc THEN Raise(wb, blk.exc)
                ELSE commit_step(wb, o, blk.ret)
        handled == IF body.exc # NoExc THEN on_error(body.w, body.exc, o)
                   ELSE body
    IN  release(handled, cur, o)

\* Lines 77-97.
get_cursor(w, o, blk) ==
    scope(acquire(w, o), o, blk)

ScopeOracle ==
    [conn : ConnOutcome, cursor : Outcome, commit : Outcome,
     rollback : Outcome, cclose : Outcome]

-----------------------------------------------------------------------------
(* execute_schema *)

Whitespace == {" ", "\n", "\t"}

\* str.split(';'): the fragments between the separators, empty ones included.
RECURSIVE SplitOn(_, _)
SplitOn(s, sep) ==
    IF \A i \in 1..Len(s) : s[i] # sep THEN <<s>>
    ELSE LET i == CHOOSE j \in 1..Len(s) :
                      s[j] = sep /\ \A k \in 1..(j - 1) : s[k] # sep
         IN  <<SubSeq(s, 1, i - 1)>> \o SplitOn(SubSeq(s, i + 1, Len(s)), sep)

\* str.strip(): leading and trailing whitespace removed.
RECURSIVE LStrip(_)
LStrip(s) ==
    IF s # <<>> /\ s[1] \in Whitespace THEN LStrip(Tail(s)) ELSE s

RECURSIVE RStrip(_)
RStrip(s) ==
    IF s # <<>> /\ s[Len(s)] \in Whitespace
    THEN RStrip(SubSeq(s, 1, Len(s) - 1)) ELSE s

Strip(s) == RStrip(LStrip(s))

NonEmpty(s) == s # <<>>

\* Variant that keeps the fragments as they are in the file.
Statements_unstripped(text) ==
    LET frags == SplitOn(text, ";")
        Kept(f) == Strip(f) # <<>>
    IN  SelectSeq(frags, Kept)

\* Line 106: [stmt.strip() for stmt in schema_sql.split(';') if stmt.strip()]
Statements(text) ==
    LET frags == SplitOn(text, ";")
    IN  SelectSeq([i \in 1..Len(frags) |-> Strip(frags[i])], NonEmpty)

\* The schema files execute_schema is run on, as sequences of characters;
\* the third has the shape "CREATE TABLE a(id INT);  ;CREATE TABLE b(id INT);".
SchemaTexts ==
    { <<>>,
      <<" ", ";", "\n">>,
      <<"a", ";", " ", " ", ";", "b", ";">>,
      <<" ", "a", " ", ";", "b", "a">>,
      <<"b">> }

\* Lines 109-111: the loop over the statements, as the block of the cursor
\* scope.  Statement number k raises a driver error (k = 0: none does).
schema_block(stmts, k) ==
    LET n == IF k = 0 THEN Len(stmts) ELSE k
    IN  [events |-> [i \in 1..n |->
                        <<"execute", stmts[i], IF i = k THEN "fail" ELSE "ok">>],
         exc |-> IF k = 0 THEN NoExc ELSE "E_query",
         ret |-> "None"]

\* Variant of the loop that goes on after a failed statement.
schema_block_continue(stmts, k) ==
    [events |-> [i \in 1..Len(stmts) |->
                    <<"execute", stmts[i], IF i = k THEN "fail" ELSE "ok">>],
     exc |-> NoExc,
     ret |-> "None"]

\* Variant of execute_schema that reads the file inside the cursor scope.
execute_schema_read_inside(w, o, text) ==
    IF o.file # "ok"
    THEN get_cursor(w, o, [events |-> << <<"open", None, "fail">> >>,
                           exc |-> "OSError", ret |-> "None"])
    ELSE get_cursor(Log(w, <<"open", None, "ok">>), o,
                    schema_block(Statements(text), o.failAt))

\* Variant of execute_schema built on the loop that goes on.
execute_schema_continue(w, o, text) ==
    IF o.file # "ok" THEN Raise(Log(w, <<"open", None, "fail">>), "OSError")
    ELSE get_cursor(Log(w, <<"open", None, "ok">>), o,
                    schema_block_continue(Statements(text), o.failAt))

\* The file is read (logged as "open") before the scope is entered; an
\* unreadable file raises OSError, which `except Error` (line 115) does not
\* catch.  A driver error is printed and re-raised unchanged.
execute_schema(w, o, text) ==
    IF o.file # "ok" THEN Raise(Log(w, <<"open", None, "fail">>), "OSError")
    ELSE get_cursor(Log(w, <<"open", None, "ok">>), o,
                    schema_block(Statements(text), o.failAt))

SchemaOracle(text) ==
    [conn : ConnOutcome, cursor : Outcome, commit : Outcome,
     rollback : Outcome, cclose : Outcome,
     file : {"ok", "missing"}, failAt : 0..Len(Statements(text))]

-----------------------------------------------------------------------------
(* test_connection *)

VersionQuery == <<"SELECT VERSION()">>

\* Lines 124-127: execute, fetchone, print, return True.
version_block(oq) ==
    [events |-> << <<"execute", VersionQuery, oq>> >>,
     exc |-> IF oq = "ok" THEN NoExc ELSE "E_query",
     ret |-> "True"]

\* Lines 129-131: `except Error: return False`, b being the outcome of the
\* try body.
test_except(b) ==
    IF b.exc \in DriverErrors THEN Ok(b.w, "False") ELSE b

\* Lines 122-127, after the connect() of line 121 of outcome c.
test_query(c, o) ==
    IF c.exc # NoExc THEN c ELSE get_cursor(c.w, o, version_block(o.query))

\* Lines 121-131: the try body and its except clause.
test_body(w, o) ==
    test_except(test_query(connect(w, o.conn0), o))

\* `finally: self.disconnect()` (lines 133-134 and 151-152), b being the
\* outcome so far: an exception raised there replaces the pending return
\* value or exception.
finally_disconnect(b, ocl) ==
    LET d == disconnect(b.w, ocl)
    IN  IF d.exc # NoExc THEN d ELSE [b EXCEPT !.w = d.w]

\* Variant that disconnects at the end of the try body, not in a finally.
test_connection_nofinally(w, o) ==
    LET b == test_body(w, o)
    IN  IF b.ret # "True" THEN b ELSE finally_disconnect(b, o.close)

\* Lines 119-134.
test_connection(w, o) ==
    finally_disconnect(test_body(w, o), o.close)

TestOracle ==
    [conn0 : ConnOutcome, conn : ConnOutcome, cursor : Outcome,
     query : Outcome, commit : Outcome, rollback : Outcome,
     cclose : Outcome, close : Outcome]

-----------------------------------------------------------------------------
(* The state machine *)

\* A my.json whose only section is `database`.
FileOf(cfg) ==
    [exists |-> TRUE, keys |-> {"database"}, database |-> cfg,
     telegram |-> NoSection]

\* A manager exists: load_config has returned.
Constructed == config # NoConfig

Init ==
    /\ config \in Configs
    /\ file = FileOf(config)
    /\ first = NoExc
    /\ connection = None
    /\ live = {}
    /\ opened = 0
    /\ cursors = 0
    /\ reconnected = FALSE
    /\ op = "idle"
    /\ arg = <<>>
    /\ trace = <<>>
    /\ block = "none"
    /\ exc = NoExc
    /\ ret = "None"

\* The state after method `name`, called with argument a, ended as r.
Finish(name, a, r) ==
    /\ r.w.opened <= MaxConns
    /\ connection' = r.w.connection
    /\ live' = r.w.live
    /\ opened' = r.w.opened
    /\ cursors' = r.w.cursors
    /\ trace' = r.w.trace
    /\ block' = r.w.block
    /\ first' = r.w.first
    /\ exc' = r.exc
    /\ ret' = r.ret
    /\ op' = name
    /\ arg' = a
    /\ UNCHANGED <<file, config>>

Connect ==
    /\ op = "idle"
    /\ Constructed
    /\ \E oc \in ConnOutcome : Finish("connect", <<>>, connect(W, oc))
    /\ reconnected' = (reconnected \/ Connected(W))

Disconnect ==
    /\ op = "idle"
    /\ Constructed
    /\ \E ocl \in Outcome : Finish("disconnect", <<>>, disconnect(W, ocl))
    /\ UNCHANGED reconnected

\* `with db.get_cursor() as cursor:` around a block of the caller's.
ScopedCursor ==
    /\ op = "idle"
    /\ Constructed
    /\ \E o \in ScopeOracle, b \in BlockOutcome :
          Finish("get_cursor", <<>>,
                 get_cursor(W, o, [events |-> <<>>, exc |-> b, ret |-> "None"]))
    /\ UNCHANGED reconnected

ExecuteSchema ==
    /\ op = "idle"
    /\ Constructed
    /\ \E text \in SchemaTexts : \E o \in SchemaOracle(text) :
          Finish("execute_schema", text, execute_schema(W, o, text))
    /\ UNCHANGED reconnected

TestConnection ==
    /\ op = "idle"
    /\ Constructed
    /\ \E o \in TestOracle : Finish("test_connection", <<>>, test_connection(W, o))
    /\ reconnected' = (reconnected \/ Connected(W))

\* The server or the network ends a connection: is_connected() turns false.
ConnectionLost ==
    /\ op = "idle"
    /\ \E c \in live : live' = live \ {c}
    /\ UNCHANGED <<file, config, connection, opened, cursors, reconnected,
                   op, arg, trace, block, first, exc, ret>>

\* The caller has looked at the outcome of the call and goes on.
Return ==
    /\ op # "idle"
    /\ op' = "idle"
    /\ arg' = <<>>
    /\ trace' = <<>>
    /\ block' = "none"
    /\ first' = NoExc
    /\ exc' = NoExc
    /\ ret' = "None"
    /\ UNCHANGED <<file, config, connection, live, opened, cursors, reconnected>>

-----------------------------------------------------------------------------
(* DatabaseConfig: my.json, load_config and get_telegram_config *)

\* The empty mapping returned by config.get('telegram', {}).
EmptyMapping == "{}"

\* The states of my.json: absent, or a JSON object with or without the
\* sections `database` and `telegram`.
Files ==
    {f \in [exists : BOOLEAN, keys : SUBSET {"database", "telegram"},
            database : {FullConfig, MinimalConfig, NoConfig},
            telegram : {"t1", "t2", NoSection}] :
        /\ ~f.exists => f.keys = {}
        /\ (f.database = NoConfig) = ("database" \notin f.keys)
        /\ (f.telegram = NoSection) = ("telegram" \notin f.keys)}

\* Variant of load_config that falls back to a default section.
load_config_default(f) ==
    IF ~f.exists THEN [exc |-> "FileNotFoundError", val |-> NoConfig]
    ELSE IF "database" \notin f.keys THEN [exc |-> NoExc, val |-> MinimalConfig]
    ELSE [exc |-> NoExc, val |-> f.database]

\* Lines 21-35.
load_config(f) ==
    IF ~f.exists THEN [exc |-> "FileNotFoundError", val |-> NoConfig]
    ELSE IF "database" \notin f.keys THEN [exc |-> "ValueError", val |-> NoConfig]
    ELSE [exc |-> NoExc, val |-> f.database]

\* Variant of get_telegram_config that reads config['telegram'].
get_telegram_config_strict(f) ==
    IF ~f.exists THEN [exc |-> "FileNotFoundError", val |-> "None"]
    ELSE IF "telegram" \notin f.keys THEN [exc |-> "KeyError", val |-> "None"]
    ELSE [exc |-> NoExc, val |-> f.telegram]

\* Lines 37-41: the file is opened and parsed again at every call.
get_telegram_config(f) ==
    IF ~f.exists THEN [exc |-> "FileNotFoundError", val |-> "None"]
    ELSE IF "telegram" \notin f.keys THEN [exc |-> NoExc, val |-> EmptyMapping]
    ELSE [exc |-> NoExc, val |-> f.telegram]

\* No manager yet: my.json is in any of its states.
InitConfig ==
    /\ file \in Files
    /\ config = NoConfig
    /\ connection = None
    /\ live = {}
    /\ opened = 0
    /\ cursors = 0
    /\ reconnected = FALSE
    /\ op = "idle"
    /\ arg = <<>>
    /\ trace = <<>>
    /\ block = "none"
    /\ first = NoExc
    /\ exc = NoExc
    /\ ret = "None"

\* DatabaseConnection(config_file): lines 47-49 and 17-19.  When load_config
\* raises, no manager comes to exist.
Construct ==
    /\ op = "idle"
    /\ ~Constructed
    /\ LET l == load_config(file)
       IN  /\ config' = l.val
           /\ exc' = l.exc
           /\ first' = l.exc
    /\ connection' = None
    /\ op' = "construct"
    /\ ret' = "None"
    /\ UNCHANGED <<file, live, opened, cursors, reconnected, arg, trace, block>>

\* db.db_config.get_telegram_config()
GetTelegramConfig ==
    /\ op = "idle"
    /\ Constructed
    /\ LET r == get_telegram_config(file)
       IN  /\ ret' = r.val
           /\ exc' = r.exc
           /\ first' = r.exc
    /\ op' = "get_telegram_config"
    /\ UNCHANGED <<file, config, connection, live, opened, cursors,
                   reconnected, arg, trace, block>>

\* my.json is edited, created or deleted.
FileChange ==
    /\ op = "idle"
    /\ file' \in Files \ {file}
    /\ UNCHANGED <<config, connection, live, opened, cursors, reconnected,
                   op, arg, trace, block, first, exc, ret>>

NextConfig ==
    \/ Construct
    \/ GetTelegramConfig
    \/ FileChange
    \/ Connect
    \/ Disconnect
    \/ Return

SpecConfig == InitConfig /\ [][NextConfig]_vars

-----------------------------------------------------------------------------
(* get_db_cursor *)

\* Lines 149-150, after the db.connect() of line 148 of outcome c.
db_scope(c, o, blk) ==
    IF c.exc # NoExc THEN c ELSE get_cursor(c.w, o, blk)

\* Variant that disconnects after the with statement, not in a finally.
get_db_cursor_nofinally(w, o, blk) ==
    LET l == load_config(file)
        body == db_scope(connect([w EXCEPT !.connection = None], o.conn0),
                         o, blk)
    IN  IF l.exc # NoExc THEN Raise(w, l.exc)
        ELSE IF body.exc # NoExc THEN body
        ELSE finally_disconnect(body, o.close)

\* Lines 143-152.  The function builds a manager of its own (connection =
\* None) from my.json, which is the file the state variable `config` was
\* loaded from; a configuration error is raised before the try statement.
\* An exception of disconnect() in the finally clause replaces the pending one.
get_db_cursor(w, o, blk) ==
    LET l == load_config(file)
    IN  IF l.exc # NoExc THEN Raise(w, l.exc)
        ELSE finally_disconnect(
                 db_scope(connect([w EXCEPT !.connection = None], o.conn0),
                          o, blk),
                 o.close)

DbCursorOracle ==
    [conn0 : ConnOutcome, conn : ConnOutcome, cursor : Outcome,
     commit : Outcome, rollback : Outcome, cclose : Outcome, close : Outcome]

\* `with get_db_cursor() as cursor:` around a block of the caller's.  The
\* manager of the function is dropped at the end: self.connection of the
\* manager of the model is what it was.
GetDbCursor ==
    /\ op = "idle"
    /\ \E o \in DbCursorOracle, b \in BlockOutcome :
          LET r == get_db_cursor(W, o, [events |-> <<>>, exc |-> b,
                                        ret |-> "None"])
          IN  Finish("get_db_cursor", <<>>,
                     [r EXCEPT !.w.connection = connection])
    /\ UNCHANGED reconnected

-----------------------------------------------------------------------------
(* The manager under any sequence of calls *)

Next ==
    \/ Connect
    \/ Disconnect
    \/ ScopedCursor
    \/ ExecuteSchema
    \/ TestConnection
    \/ GetDbCursor
    \/ ConnectionLost
    \/ Return

Spec == Init /\ [][Next]_vars

-----------------------------------------------------------------------------
(* execute_schema on every schema text up to a length *)

\* Bound on the length of the schema texts.
MaxLen == 4

\* The characters of a schema text: letters, blanks and the separator.
Alphabet == {"a", "b", " ", ";"}

TextsUpTo(n) == UNION {[1..k -> Alphabet] : k \in 0..n}

\* A constructed manager about to run execute_schema on the text in `arg`.
InitSchema ==
    /\ config = MinimalConfig
    /\ file = FileOf(config)
    /\ connection = None
    /\ live = {}
    /\ opened = 0
    /\ cursors = 0
    /\ reconnected = FALSE
    /\ op = "idle"
    /\ arg \in TextsUpTo(MaxLen) \cup SchemaTexts
    /\ trace = <<>>
    /\ block = "none"
    /\ first = NoExc
    /\ exc = NoExc
    /\ ret = "None"

RunSchema ==
    /\ op = "idle"
    /\ Constructed
    /\ \E o \in SchemaOracle(arg) :
          Finish("execute_schema", arg, execute_schema(W, o, arg))
    /\ UNCHANGED reconnected

NextSchema == RunSchema

SpecSchema == InitSchema /\ [][NextSchema]_vars

-----------------------------------------------------------------------------
(* The process entry point *)

\* Variant of the test of line 159 that ignores the value returned.
main_branch_always(o, e, v) ==
    o = "test_connection" /\ e = NoExc

\* Line 159: `if db.test_connection():`, after the call o that ended with
\* exception e or value v.
main_branch(o, e, v) ==
    o = "test_connection" /\ e = NoExc /\ v = "True"

\* Line 162.
MainConnect ==
    /\ main_branch(op, exc, ret)
    /\ \E oc \in ConnOutcome : Finish("connect", <<>>, connect(W, oc))
    /\ reconnected' = (reconnected \/ Connected(W))

\* Line 163, reached when connect() raised nothing.
MainSchema ==
    /\ op = "connect"
    /\ exc = NoExc
    /\ \E text \in SchemaTexts : \E o \in SchemaOracle(text) :
          Finish("execute_schema", text, execute_schema(W, o, text))
    /\ UNCHANGED reconnected

\* Line 164, reached when execute_schema() raised nothing.
MainDisconnect ==
    /\ op = "execute_schema"
    /\ exc = NoExc
    /\ \E ocl \in Outcome : Finish("disconnect", <<>>, disconnect(W, ocl))
    /\ UNCHANGED reconnected

\* The server or the network ends a connection between two calls.
MainConnectionLost ==
    /\ \E c \in live : live' = live \ {c}
    /\ UNCHANGED <<file, config, connection, opened, cursors, reconnected,
                   op, arg, trace, block, first, exc, ret>>

\* Lines 158-168: the manager is constructed, test_connection runs first.
NextMain ==
    \/ TestConnection
    \/ MainConnect
    \/ MainSchema
    \/ MainDisconnect
    \/ MainConnectionLost

SpecMain == Init /\ [][NextMain]_vars

-----------------------------------------------------------------------------
(* Properties *)

\* The positions of the calls of one kind in the trace of the last method.
At(kind) == {i \in 1..Len(trace) : trace[i][1] = kind}
Count(kind) == Cardinality(At(kind))
AtOk(kind) == {i \in At(kind) : trace[i][3] = "ok"}

\* C1 (as stated): whenever the block of a cursor scope raises, whatever the
\* kind of error, rollback is invoked exactly once, the cursor is closed
\* exactly once, commit is not invoked, and an error leaves the scope.
C1_RollbackOnAnyError ==
    block \notin {"none", "ok"} =>
        /\ Count("rollback") = 1
        /\ Count("cursor_close") = 1
        /\ Count("commit") = 0
        /\ exc # NoExc

\* C2: whenever the block of a cursor scope completes normally (the early
\* return of test_connection included), commit is invoked exactly once, before
\* the one close of the cursor, and a successful commit is followed by no
\* rollback.
C2_CommitOnceBeforeClose ==
    block = "ok" =>
        /\ Count("commit") = 1
        /\ Count("cursor_close") = 1
        /\ \A i \in At("commit") : \A j \in At("cursor_close") : i < j
        /\ \A i \in At("commit") : trace[i][3] = "ok" => Count("rollback") = 0

C2_Witness ==
    /\ op = "test_connection"
    /\ block = "ok"
    /\ ret = "True"
    /\ AtOk("commit") # {}
    /\ Count("cursor_close") = 1

\* C3: every cursor a scope creates is closed exactly once before the scope
\* exits, on every exit path, so no cursor is open once a method has ended.
C3_CursorReleased ==
    /\ cursors = 0
    /\ Cardinality(AtOk("cursor")) = Count("cursor_close")
    /\ Count("cursor_close") <= 1
    /\ \A i \in AtOk("cursor") : \E j \in At("cursor_close") :
          i < j /\ trace[j][2] = trace[i][2]
    /\ block # "none" => Count("cursor_close") = 1

C3_Witness ==
    /\ op = "get_cursor"
    /\ exc = "E_rollback"
    /\ AtOk("cursor") # {}
    /\ Count("cursor_close") = 1

\* C4: once test_connection has ended, by return or by exception, the handle
\* is not a live connection and no connection opened during the call is live.
C4_TestDisconnects ==
    op = "test_connection" =>
        /\ ~Connected(W)
        /\ \A i \in At("connect") : trace[i][2] \notin live

C4_Witness ==
    /\ op = "test_connection"
    /\ ret = "False"
    /\ AtOk("connect") # {}
    /\ Count("close") = 1
    /\ connection # None

\* C5 (as stated): test_connection raises nothing, returns a boolean, and
\* returns True only when the connect, the query and the commit succeeded.
C5_TestNeverRaises ==
    op = "test_connection" =>
        /\ exc = NoExc
        /\ ret \in {"True", "False"}
        /\ ret = "True" =>
              /\ AtOk("connect") # {}
              /\ AtOk("execute") # {}
              /\ AtOk("commit") # {}

\* C6: execute_schema executes the statements of the file in file order in
\* one scope; commit is invoked at most once, after every statement has
\* executed successfully, never between two statements; after a failed
\* statement nothing more is executed, commit is not invoked, rollback is
\* invoked once and a driver error leaves the method.
C6_SchemaOneTransaction ==
    op = "execute_schema" =>
        LET stmts == Statements(arg)
            ex == At("execute")
        IN  /\ Cardinality(ex) <= Len(stmts)
            /\ \A i \in ex : \A j \in ex : i <= j => j - i + 1 <= Cardinality(ex)
            /\ \A i \in ex :
                  trace[i][2] = stmts[Cardinality({j \in ex : j <= i})]
            /\ Count("commit") <= 1
            /\ \A c \in At("commit") :
                  /\ Cardinality(ex) = Len(stmts)
                  /\ \A i \in ex : i < c /\ trace[i][3] = "ok"
            /\ block = "ok" => Count("commit") = 1
            /\ \A i \in ex :
                  trace[i][3] = "fail" =>
                      /\ \A j \in ex : j <= i
                      /\ Count("commit") = 0
                      /\ Count("rollback") = 1
                      /\ exc \in DriverErrors

C6_Witness ==
    /\ op = "execute_schema"
    /\ Count("execute") = 2
    /\ \E i \in At("execute") : trace[i][3] = "fail"
    /\ Count("rollback") = 1
    /\ Count("commit") = 0

\* C7 (as stated): after a failed connect(), from any prior state, the handle
\* is not a live connection.
C7_FailedConnectDisconnected ==
    (op = "connect" /\ exc # NoExc) => ~Connected(W)

\* C7 (amended): a failed connect() raises (the driver error when the driver
\* refused) and leaves the handle and the connections as they were, so the
\* handle is not live afterwards unless it was live before.
C7_FailedConnectKeepsState ==
    [][(op' = "connect" /\ exc' # NoExc) =>
          /\ connection' = connection
          /\ live' = live
          /\ opened' = opened
          /\ exc' \in {"E_connect", "KeyError"}
          /\ (exc' = "E_connect") = (trace'[1][3] = "fail")
          /\ (~Connected(W) =>
                ~(connection' # None /\ connection' \in live'))]_vars

C7_Witness ==
    /\ op = "connect"
    /\ exc = "E_connect"
    /\ connection # None
    /\ connection \notin live

\* C8 (as stated): whatever the calls made, at most one connection opened by
\* the manager is open.
C8_AtMostOneOpen == Cardinality(live) <= 1

\* C8 (amended): as long as connect() has not been called while the manager
\* was connected, at most one connection is open, and it is the one the
\* handle refers to.
C8_AtMostOneOpenUnlessReconnected ==
    ~reconnected =>
        /\ Cardinality(live) <= 1
        /\ live \subseteq {connection}

C8_Witness ==
    /\ ~reconnected
    /\ opened >= 2
    /\ Connected(W)
    /\ op = "execute_schema"

\* C9: disconnect() closes a live connection exactly once and leaves the
\* manager disconnected; when not connected it calls nothing, raises nothing
\* and changes nothing, so a second disconnect() has no effect.
C9_DisconnectIdempotent ==
    [][op' = "disconnect" =>
          /\ ~(connection' # None /\ connection' \in live')
          /\ connection' = connection
          /\ opened' = opened
          /\ cursors' = cursors
          /\ IF Connected(W)
             THEN /\ Len(trace') = 1
                  /\ trace'[1][1] = "close"
                  /\ trace'[1][2] = connection
                  /\ live' = live \ {connection}
             ELSE /\ trace' = <<>>
                  /\ exc' = NoExc
                  /\ live' = live]_vars

C9_Witness ==
    /\ op = "disconnect"
    /\ trace = <<>>
    /\ connection # None
    /\ exc = NoExc

\* C10: a cursor scope calls connect() exactly when the manager is not
\* connected, and then once, before anything else; a live connection is
\* reused.  A cursor is created only on the live connection the handle
\* refers to, and the block runs only after the cursor was created.
C10_LazyConnect ==
    [][op' = "get_cursor" =>
          /\ IF Connected(W)
             THEN At("connect")' = {} /\ connection' = connection
             ELSE At("connect")' = {1}
          /\ \A i \in AtOk("cursor")' :
                /\ trace'[i][2] = connection'
                /\ connection' \in live'
                /\ ~Connected(W) =>
                      /\ i = 2
                      /\ trace'[1][3] = "ok"
                      /\ trace'[1][2] = connection'
          /\ (block' # "none") = (AtOk("cursor")' # {})]_vars

C10_Witness ==
    /\ op = "get_cursor"
    /\ opened >= 2
    /\ 1 \in AtOk("connect")
    /\ trace[1][2] = connection
    /\ block = "ok"

\* The calls of one kind that raised.
AtFail(kind) == {i \in At(kind) : trace[i][3] = "fail"}

\* C11 (as stated): when something fails with an error and a later cleanup
\* step (rollback, cursor close, disconnect) fails too, the caller still
\* observes the first error: when the first exception raised in a method is
\* that of a connect, a statement or a block, any exception that leaves the
\* method is that one.
C11_CleanupNeverMasks ==
    (first \in {"E_connect", "E_query", "X_block"} /\ exc # NoExc) => exc = first

\* C12: in a cursor scope a failed commit or a failed rollback always leaves
\* the scope as a driver error; after a failed commit rollback is attempted
\* once; in both cases a cursor that was created is closed once.
C12_CommitRollbackFailuresPropagate ==
    op \in {"get_cursor", "execute_schema"} =>
        /\ AtFail("commit") # {} =>
              /\ exc \in DriverErrors
              /\ Count("rollback") = 1
              /\ \A i \in At("commit") : \A j \in At("rollback") : i < j
              /\ Count("cursor_close") = 1
        /\ AtFail("rollback") # {} =>
              /\ exc \in DriverErrors
              /\ Count("cursor_close") = Cardinality(AtOk("cursor"))

C12_Witness ==
    /\ op = "get_cursor"
    /\ block = "ok"
    /\ AtFail("commit") # {}
    /\ AtFail("rollback") # {}
    /\ exc = "E_rollback"
    /\ Count("cursor_close") = 1

\* C13 (as stated): execute_schema fails with a driver error both when the
\* schema file cannot be read and when a statement fails.
C13_SchemaFailsWithConnectionError ==
    (op = "execute_schema" /\ (AtFail("open") # {} \/ AtFail("execute") # {}))
        => exc \in DriverErrors

\* C13 (amended): when the schema file cannot be read execute_schema raises
\* the error of the file system, which is no driver error, and has then made
\* no other call and changed nothing: no connection opened, no cursor, no
\* statement; when a statement fails it raises a driver error.
C13_SchemaFailureKinds ==
    [][op' = "execute_schema" =>
          /\ (exc' = "OSError") = (AtFail("open")' # {})
          /\ AtFail("open")' # {} =>
                /\ Len(trace') = 1
                /\ block' = "none"
                /\ UNCHANGED <<connection, live, opened, cursors>>
          /\ AtFail("execute")' # {} => exc' \in DriverErrors]_vars

C13_Witness ==
    /\ op = "execute_schema"
    /\ exc = "OSError"
    /\ connection = None
    /\ opened = 0
    /\ Len(trace) = 1

\* The k-th smallest element of a set of numbers.
Kth(S, k) == CHOOSE x \in S : Cardinality({y \in S : y < x}) = k - 1

\* The statements executed by the last method, in order.
Executed ==
    [k \in 1..Count("execute") |-> trace[Kth(At("execute"), k)][2]]

\* The statements a schema text denotes: for each fragment between two
\* separators (or an end of the text) that has a character other than
\* whitespace, in text order, the fragment from its first to its last such
\* character.
RefStatements(text) ==
    LET n == Len(text)
        seps == {i \in 1..n : text[i] = ";"}
        starts == {0} \cup seps
        End(p) == CHOOSE q \in seps \cup {n + 1} :
                      q > p /\ \A r \in seps : r > p => q <= r
        Ink(p) == {i \in (p + 1)..(End(p) - 1) : text[i] \notin {" ", "\n", "\t"}}
        good == {p \in starts : Ink(p) # {}}
        Lo(p) == CHOOSE i \in Ink(p) : \A j \in Ink(p) : i <= j
        Hi(p) == CHOOSE i \in Ink(p) : \A j \in Ink(p) : j <= i
    IN  [k \in 1..Cardinality(good) |->
            SubSeq(text, Lo(Kth(good, k)), Hi(Kth(good, k)))]

\* C14: when the block of execute_schema runs on a schema text, the
\* statements executed are, in order, the non-blank fragments of the text
\* between the separators, stripped: all of them and then one commit when no
\* statement fails (none and a commit for a text of blank fragments), the
\* first ones up to the failing one otherwise.
C14_StatementSelection ==
    (op = "execute_schema" /\ block # "none") =>
        LET ref == RefStatements(arg)
        IN  /\ Len(Executed) <= Len(ref)
            /\ \A k \in 1..Len(Executed) : Executed[k] = ref[k]
            /\ block = "ok" => (Len(Executed) = Len(ref) /\ Count("commit") = 1)
            /\ block # "ok" => AtFail("execute") # {}

C14_Witness ==
    /\ op = "execute_schema"
    /\ arg = <<"a", ";", " ", " ", ";", "b", ";">>
    /\ block = "ok"
    /\ Count("execute") = 2
    /\ Executed = << <<"a">>, <<"b">> >>
    /\ AtOk("commit") # {}

\* C15: constructing a manager on a missing my.json raises
\* FileNotFoundError, on a my.json without a `database` section raises
\* ValueError, and otherwise loads that section; as long as no manager has
\* been constructed no connection has been opened.
C15_ConfigNeverDefaults ==
    /\ op = "construct" =>
          /\ ~file.exists => (exc = "FileNotFoundError" /\ ~Constructed)
          /\ (file.exists /\ "database" \notin file.keys) =>
                (exc = "ValueError" /\ ~Constructed)
          /\ (file.exists /\ "database" \in file.keys) =>
                (exc = NoExc /\ config = file.database)
    /\ ~Constructed => (opened = 0 /\ connection = None /\ live = {})

C15_Witness ==
    /\ op = "construct"
    /\ file.exists
    /\ file.keys = {"telegram"}
    /\ exc = "ValueError"
    /\ ~Constructed

\* C17: get_telegram_config returns the `telegram` section my.json has when
\* it is called, and the empty mapping, without an error, when it has none;
\* the database configuration of a manager never changes after construction,
\* whatever happens to the file.
C17_TelegramReRead ==
    /\ []((op = "get_telegram_config" /\ file.exists) =>
             /\ exc = NoExc
             /\ "telegram" \notin file.keys => ret = "{}"
             /\ "telegram" \in file.keys => ret = file.telegram)
    /\ [][Constructed => config' = config]_vars

C17_Witness ==
    /\ op = "get_telegram_config"
    /\ file.exists
    /\ file.keys = {}
    /\ ret = "{}"
    /\ exc = NoExc
    /\ Constructed

\* C16: whenever connect() reaches the driver, the port it passes is the
\* configured one, or 3306 when none is configured, the charset is the
\* configured one, or "utf8mb4" when none is configured, and host, user,
\* password and database are the configured ones; when one of these four is
\* not configured connect() raises KeyError and the driver is not called.
C16_ConnectParameters ==
    \A i \in At("connect") :
        IF {"host", "user", "password", "database"} \subseteq DOMAIN config
        THEN /\ trace[i][3] \in {"ok", "dead", "fail"}
             /\ trace[i][4] = IF "port" \in DOMAIN config THEN config.port ELSE 3306
             /\ trace[i][5] = IF "charset" \in DOMAIN config
                              THEN config.charset ELSE "utf8mb4"
             /\ trace[i][6].host = config.host
             /\ trace[i][6].user = config.user
             /\ trace[i][6].password = config.password
             /\ trace[i][6].database = config.database
        ELSE trace[i][3] = "KeyError" /\ exc = "KeyError"

C16_Witness ==
    /\ op = "connect"
    /\ "port" \in DOMAIN config
    /\ "charset" \in DOMAIN config
    /\ trace[1][3] = "ok"
    /\ trace[1][4] = 3307
    /\ trace[1][5] = "latin1"

\* C18: in a run of the entry point the schema is initialized (connect,
\* execute_schema, disconnect, each one only after the one before raised
\* nothing) exactly when test_connection returned True: connect() is called
\* only then, and it is called whenever that happened; the connection of the
\* test is closed when connect() is called; no call has two connections open
\* at once and no state has; once disconnect() has been called no connection
\* is open.
C18_SchemaInitIffTestTrue ==
    /\ [][(op' # op /\ op' = "connect") =>
             /\ op = "test_connection"
             /\ exc = NoExc
             /\ ret = "True"
             /\ live = {}]_vars
    /\ [][(op' # op /\ op' = "execute_schema") => (op = "connect" /\ exc = NoExc)]_vars
    /\ [][(op' # op /\ op' = "disconnect") =>
             (op = "execute_schema" /\ exc = NoExc)]_vars
    /\ [][op' # op => Cardinality(live) + Cardinality(AtOk("connect")') <= 1]_vars
    /\ [](Cardinality(live) <= 1)
    /\ [](op = "disconnect" => live = {})
    /\ []((op = "test_connection" /\ exc = NoExc /\ ret = "True")
            => ENABLED MainConnect)

C18_Witness ==
    /\ op = "disconnect"
    /\ exc = NoExc
    /\ Count("close") = 1
    /\ live = {}
    /\ opened >= 2

\* The connect events of a call in which the driver was called.
DriverConnects == {i \in At("connect") : trace[i][3] \in ConnOutcome}

\* C19 (as stated): after any use of get_db_cursor no connection that it
\* opened is open, and the driver's connect was called exactly once.
C19_OneConnectAndDisconnected ==
    op = "get_db_cursor" =>
        /\ \A i \in AtOk("connect") : trace[i][2] \notin live
        /\ Cardinality(DriverConnects) = 1

\* C19 (amended): after any use of get_db_cursor no connection that it opened
\* is open, each connection that it opened was closed exactly once, and the
\* manager's own handle is untouched; the driver's connect was called at most
\* twice: twice only when the connection of the first call was found not
\* connected at the entry of the cursor scope, and not at all only when a
\* required key is missing from the configuration, which raises KeyError.
C19_DisconnectedOnEveryPath ==
    op = "get_db_cursor" =>
        /\ \A i \in AtOk("connect") :
              /\ trace[i][2] \notin live
              /\ Cardinality({j \in At("close") : trace[j][2] = trace[i][2]}) = 1
        /\ Cardinality(DriverConnects) <= 2
        /\ Cardinality(DriverConnects) = 2 => trace[1][3] = "dead"
        /\ Cardinality(DriverConnects) = 0 => exc = "KeyError"

C19_Witness ==
    /\ op = "get_db_cursor"
    /\ block = "X_block"
    /\ exc = "X_block"
    /\ Count("connect") = 1
    /\ Count("close") = 1

\* C20 (as stated): when the connect at the entry of a cursor scope fails,
\* the block is not run, no cursor is created or closed, neither commit nor
\* rollback is invoked, the state of the manager and of the driver is what it
\* was, and the error of the connect is the one that leaves the scope.
C20_FailedLazyConnect ==
    [][(op' = "get_cursor" /\ \E i \in At("connect")' :
                                  trace'[i][3] \in {"fail", "KeyError"}) =>
          /\ block' = "none"
          /\ Count("cursor")' = 0
          /\ Count("cursor_close")' = 0
          /\ Count("commit")' = 0
          /\ Count("rollback")' = 0
          /\ UNCHANGED <<connection, live, opened, cursors>>
          /\ exc' = first'
          /\ exc' \in {"E_connect", "KeyError"}]_vars

====
